---------------------------- MODULE Spec2Model ----------------------------
(* The dashboard view DashboardOverview (src/pages/DashboardOverview.tsx):  *)
(* six state hooks, one mount effect that loads five collections behind a   *)
(* Promise.all barrier, and the derived values recomputed at every render.  *)
(*                                                                          *)
(* Encoding of JavaScript values:                                           *)
(*   - an optional field is a sequence: <<>> is undefined, <<v>> is v;      *)
(*   - a string that the code compares or parses is a sequence of           *)
(*     character codes (digits 0..9, any other character >= 10);            *)
(*   - a reference string is a sequence of tokens, the last of which may be *)
(*     a record identifier;                                                 *)
(*   - a displayed value is <<>> for the '-' placeholder, <<n>> for n.      *)
EXTENDS Integers, Sequences, FiniteSets, TLC

VARIABLES dozenten, raeume, teilnehmer, kurse, anmeldungen, loading,
          pc, promise, calls, pending, log, setLoadingCalls,
          effectPending, deps, now, view

vars == <<dozenten, raeume, teilnehmer, kurse, anmeldungen, loading,
          pc, promise, calls, pending, log, setLoadingCalls,
          effectPending, deps, now, view>>

---------------------------------------------------------------------------
(* Bounds of the model *)

\* the clock runs from 0 to MaxNow
MaxNow == 2
\* longest enrollment collection a retrieval returns in the lifecycle specs
MaxLifeAnm == 2
\* longest collections of the revenue inputs
MaxRevKurse == 2
MaxRevAnm == 3
\* longest collections of the courses-per-instructor inputs
MaxDozDozenten == 2
MaxDozKurse == 3
\* longest course collection of the active-course inputs
MaxActKurse == 2
\* longest enrollment collection of the recent-enrollments inputs
MaxRecent == 6

---------------------------------------------------------------------------
(* JavaScript values *)

None == <<>>
Some(v) == <<v>>

\* the length of .slice(0, 5)
RecentLimit == 5

Min(a, b) == IF a < b THEN a ELSE b

SeqsUpTo(S, n) == UNION {[1..k -> S] : k \in 0..n}

\* record identifiers of the five apps; a collection lists each at most once
DozentIds == <<"d1", "d2", "d3", "d4">>
KursIds == <<"k1", "k2", "k3", "k4">>
AnmeldungIds == <<"a1", "a2", "a3", "a4", "a5", "a6", "a7", "a8">>
\* identifiers that no collection of the model holds
ForeignIds == {"d9", "k9", "t9"}
RecordIds ==
    {DozentIds[i] : i \in 1..Len(DozentIds)} \cup {KursIds[i] : i \in 1..Len(KursIds)}
    \cup {AnmeldungIds[i] : i \in 1..Len(AnmeldungIds)} \cup ForeignIds \cup {"r1", "t1"}

\* the result of extractRecordId for a reference that holds no identifier
NullId == "null"

\* a reference string ending in the identifier id
Url(id) == <<"https://host/records/", id>>

\* extractRecordId(url): null for an absent or empty reference and for one
\* that holds no identifier pattern, else the identifier it ends with
extractRecordId(ref) ==
    IF ref = None THEN NullId
    ELSE LET s == ref[1]
         IN IF Len(s) = 0 THEN NullId
            ELSE IF s[Len(s)] \in RecordIds THEN s[Len(s)] ELSE NullId

\* a.localeCompare(b) on strings of character codes: -1, 0 or 1
RECURSIVE localeCompare(_, _)
localeCompare(a, b) ==
    IF Len(a) = 0 THEN (IF Len(b) = 0 THEN 0 ELSE -1)
    ELSE IF Len(b) = 0 THEN 1
    ELSE IF a[1] < b[1] THEN -1
    ELSE IF a[1] > b[1] THEN 1
    ELSE localeCompare(Tail(a), Tail(b))

\* the instant of an invalid Date
InvalidDate == -1

\* parseISO(s): the instant the two-digit date string s names, the invalid
\* Date for any other string
parseISO(s) ==
    IF Len(s) = 2 /\ s[1] < 10 /\ s[2] < 10 THEN 10 * s[1] + s[2] ELSE InvalidDate

\* (variant) a comparison that is not strict
isAfterOrEqual(d, c) == d # InvalidDate /\ c # InvalidDate /\ d >= c

\* isAfter(date, dateToCompare): false when either is the invalid Date
isAfter(d, c) == d # InvalidDate /\ c # InvalidDate /\ d > c

---------------------------------------------------------------------------
(* The derived values of a render (lines 49-86) *)

\* kurse.find(k => k.record_id === kursId): the first match, <<>> for none
findById(coll, id) ==
    LET hits == SelectSeq(coll, LAMBDA k : k.record_id = id)
    IN IF Len(hits) = 0 THEN None ELSE Some(hits[1])

\* kurs?.fields.preis || 0
preisOrZero(found) ==
    IF found = None THEN 0
    ELSE IF found[1].preis = None THEN 0 ELSE found[1].preis[1]

RECURSIVE reduceRevenue(_, _, _)
reduceRevenue(sum, anm, ks) ==
    IF Len(anm) = 0 THEN sum
    ELSE LET kursId == extractRecordId(anm[1].kurs)
             kurs == findById(ks, kursId)
         IN reduceRevenue(sum + preisOrZero(kurs), Tail(anm), ks)

\* (variant) only the paid enrollments count
totalRevenuePaidOnly(anm, ks) ==
    reduceRevenue(0, SelectSeq(anm, LAMBDA a : a.bezahlt = Some(TRUE)), ks)

totalRevenue(anm, ks) == reduceRevenue(0, anm, ks)

\* a.fields.bezahlt as a condition
isBezahlt(a) == a.bezahlt = Some(TRUE)

paidCount(anm) == Len(SelectSeq(anm, isBezahlt))

\* (variant) the unpaid enrollments filtered on their own
unpaidCountByFalse(anm) == Len(SelectSeq(anm, LAMBDA a : a.bezahlt = Some(FALSE)))

unpaidCount(anm) == Len(anm) - paidCount(anm)

\* !k.fields.enddatum: the field is undefined or the empty string
noEnddatum(k) == k.enddatum = None \/ Len(k.enddatum[1]) = 0

isActive(k, t) ==
    IF noEnddatum(k) THEN FALSE ELSE isAfter(parseISO(k.enddatum[1]), t)

activeKurse(ks, t) == SelectSeq(ks, LAMBDA k : isActive(k, t))

\* d.fields.name?.split(' ')[0] || 'N/A'; a name is a sequence of words
dozentLabel(d) ==
    IF d.name = None THEN "N/A"
    ELSE IF Len(d.name[1]) = 0 THEN "N/A" ELSE d.name[1][1]

kurseOfDozent(d, ks) ==
    Len(SelectSeq(ks, LAMBDA k : extractRecordId(k.dozent) = d.record_id))

\* (variant) every instructor keeps an entry
keepEveryDozentEntry(e) == e.kurse >= 0

keepDozentEntry(e) == e.kurse > 0

kursPerDozent(dz, ks) ==
    SelectSeq([i \in 1..Len(dz) |-> [name |-> dozentLabel(dz[i]),
                                     kurse |-> kurseOfDozent(dz[i], ks)]],
              keepDozentEntry)

paymentData(anm) ==
    <<[name |-> "Bezahlt", value |-> paidCount(anm)],
      [name |-> "Offen", value |-> unpaidCount(anm)]>>

\* a.fields.anmeldedatum || ''
dateOrEmpty(a) == IF a.anmeldedatum = None THEN <<>> ELSE a.anmeldedatum[1]

\* (variant) the comparator with its operands swapped: oldest first
compareRecentAscending(a, b) == localeCompare(dateOrEmpty(a), dateOrEmpty(b))

\* the comparator of the sort: dateB.localeCompare(dateA)
compareRecent(a, b) == localeCompare(dateOrEmpty(b), dateOrEmpty(a))

\* Array.prototype.sort is stable: x goes behind every element that the
\* comparator does not place after it
RECURSIVE insertSorted(_, _)
insertSorted(s, x) ==
    IF Len(s) = 0 THEN <<x>>
    ELSE IF compareRecent(s[1], x) > 0 THEN <<x>> \o s
    ELSE <<s[1]>> \o insertSorted(Tail(s), x)

RECURSIVE sortRecent(_, _)
sortRecent(done, rest) ==
    IF Len(rest) = 0 THEN done
    ELSE sortRecent(insertSorted(done, rest[1]), Tail(rest))

sliceRecent(s) == SubSeq(s, 1, Min(RecentLimit, Len(s)))

recentAnmeldungen(anm) == sliceRecent(sortRecent(<<>>, anm))

---------------------------------------------------------------------------
(* The rendered output (lines 98-295) *)

Placeholder == <<>>
Shown(n) == <<n>>

\* {loading ? '-' : n}
metric(ld, n) == IF ld THEN Placeholder ELSE Shown(n)

\* the sublabel of the Anmeldungen card: `${paidCount} bezahlt`
anmeldungenSublabel(anm) == Shown(paidCount(anm))

Render(dz, rm, tn, ks, anm, ld, t) ==
    [at |-> t,
     totalRevenue |-> totalRevenue(anm, ks),
     paidCount |-> paidCount(anm),
     unpaidCount |-> unpaidCount(anm),
     activeKurse |-> activeKurse(ks, t),
     kursPerDozent |-> kursPerDozent(dz, ks),
     recentAnmeldungen |-> recentAnmeldungen(anm),
     heroAktiveKurse |-> metric(ld, Len(activeKurse(ks, t))),
     heroAnmeldungen |-> metric(ld, Len(anm)),
     heroTeilnehmer |-> metric(ld, Len(tn)),
     heroGesamtumsatz |-> metric(ld, totalRevenue(anm, ks)),
     kpiDozenten |-> metric(ld, Len(dz)),
     kpiRaeume |-> metric(ld, Len(rm)),
     kpiTeilnehmer |-> metric(ld, Len(tn)),
     kpiKurse |-> metric(ld, Len(ks)),
     kpiAnmeldungen |-> metric(ld, Len(anm)),
     kpiAnmeldungenSublabel |-> anmeldungenSublabel(anm),
     chartKursPerDozent |-> Len(kursPerDozent(dz, ks)) > 0,
     chartPayment |-> Len(anm) > 0,
     tableRecent |-> Len(recentAnmeldungen(anm)) > 0]

---------------------------------------------------------------------------
(* The records the retrievals return *)

Dozent(id, name) == [record_id |-> id, name |-> name]
Raum(id) == [record_id |-> id]
Teilnehmer(id, name) == [record_id |-> id, name |-> name]
Kurs(id, preis, enddatum, dozent) ==
    [record_id |-> id, preis |-> preis, enddatum |-> enddatum, dozent |-> dozent]
Anmeldung(id, kurs, tn, datum, bezahlt) ==
    [record_id |-> id, kurs |-> kurs, teilnehmer |-> tn,
     anmeldedatum |-> datum, bezahlt |-> bezahlt]

Services == {"getDozenten", "getRaeume", "getTeilnehmer", "getKurse", "getAnmeldungen"}

BezahltValues == {None, Some(TRUE), Some(FALSE)}

DozentenResults ==
    {<<>>, <<Dozent("d1", Some(<<"Anna", "Schmidt">>)), Dozent("d2", None)>>}
RaeumeResults == {<<>>, <<Raum("r1")>>}
TeilnehmerResults == {<<>>, <<Teilnehmer("t1", Some(<<"Tom">>))>>}
KurseResults ==
    {<<>>, <<Kurs("k1", Some(100), Some(<<0, 1>>), Some(Url("d1"))),
             Kurs("k2", None, None, None)>>}
AnmeldungenResults ==
    {[i \in 1..Len(b) |-> Anmeldung(AnmeldungIds[i], Some(Url("k1")), Some(Url("t1")),
                                    Some(<<0, i>>), b[i])] :
        b \in SeqsUpTo(BezahltValues, MaxLifeAnm)}

Results(s) ==
    CASE s = "getDozenten" -> DozentenResults
      [] s = "getRaeume" -> RaeumeResults
      [] s = "getTeilnehmer" -> TeilnehmerResults
      [] s = "getKurse" -> KurseResults
      [] s = "getAnmeldungen" -> AnmeldungenResults

---------------------------------------------------------------------------
(* The mount effect and loadData (lines 25-47) *)

Pending == [status |-> "pending", value |-> <<>>]
NotCalled == [status |-> "none", value |-> <<>>]

\* (variant) an effect that depends on the loading flag
effectDepsLoading(ld) == <<ld>>

\* the dependency array of the effect, given the state of the render
effectDeps(ld) == <<>>

\* (variant) the barrier of Promise.allSettled: fulfilled once none is pending
promiseAllSettled(p) ==
    IF \A s \in Services : p[s].status \in {"fulfilled", "rejected"} THEN "fulfilled"
    ELSE "pending"

\* Promise.all: rejected as soon as one input is, fulfilled once all are
promiseAll(p) ==
    IF \E s \in Services : p[s].status = "rejected" THEN "rejected"
    ELSE IF \A s \in Services : p[s].status = "fulfilled" THEN "fulfilled"
    ELSE "pending"

\* where loadData resumes once the awaited promise has settled
resume(outcome) ==
    CASE outcome = "fulfilled" -> "setDozenten"
      [] outcome = "rejected" -> "catch"
      [] OTHER -> "await"

\* (variant) a finally block that leaves the loading flag alone
noFinallyUpdates == <<>>

\* the updates of the finally block
finallyUpdates == <<[setter |-> "loading", value |-> FALSE]>>

\* (variant) a catch block that swallows the error
catchNoLog == <<>>

\* the diagnostic of the catch block
catchLog == <<"Failed to load:">>

Init ==
    /\ dozenten = <<>>
    /\ raeume = <<>>
    /\ teilnehmer = <<>>
    /\ kurse = <<>>
    /\ anmeldungen = <<>>
    /\ loading = TRUE
    /\ pc = "idle"
    /\ promise = [s \in Services |-> NotCalled]
    /\ calls = [s \in Services |-> 0]
    /\ pending = <<>>
    /\ log = <<>>
    /\ setLoadingCalls = 0
    /\ effectPending = TRUE
    /\ deps = effectDeps(TRUE)
    /\ now = 0
    /\ view = Render(<<>>, <<>>, <<>>, <<>>, <<>>, TRUE, 0)

\* the effect runs after the render that scheduled it: loadData() issues the
\* five retrievals and awaits them
RunEffect ==
    /\ effectPending
    /\ pc \in {"idle", "done"}
    /\ effectPending' = FALSE
    /\ calls' = [s \in Services |-> calls[s] + 1]
    /\ promise' = [s \in Services |-> Pending]
    /\ pc' = "await"
    /\ UNCHANGED <<dozenten, raeume, teilnehmer, kurse, anmeldungen, loading,
                   pending, log, setLoadingCalls, deps, now, view>>

\* a retrieval settles while no handler runs; loadData resumes in the same
\* turn when that settles the awaited Promise.all
Settle(s, status, value) ==
    /\ pc \in {"await", "done"}
    /\ promise[s].status = "pending"
    /\ promise' = [promise EXCEPT ![s] = [status |-> status, value |-> value]]
    /\ pc' = IF pc = "await" THEN resume(promiseAll(promise')) ELSE pc
    /\ UNCHANGED <<dozenten, raeume, teilnehmer, kurse, anmeldungen, loading,
                   calls, pending, log, setLoadingCalls, effectPending, deps,
                   now, view>>

Fulfil == \E s \in Services : \E v \in Results(s) : Settle(s, "fulfilled", v)

Reject == \E s \in Services : Settle(s, "rejected", <<>>)

\* setX(x): x is the result of the retrieval, destructured from the batch
update(setter, service, p) == [setter |-> setter, value |-> p[service].value]

\* one setter call of the try block: the update is queued for the next render
SetState(at, setter, service, next) ==
    /\ pc = at
    /\ pending' = Append(pending, update(setter, service, promise))
    /\ pc' = next
    /\ UNCHANGED <<dozenten, raeume, teilnehmer, kurse, anmeldungen, loading,
                   promise, calls, log, setLoadingCalls, effectPending, deps,
                   now, view>>

SetDozenten == SetState("setDozenten", "dozenten", "getDozenten", "setRaeume")
SetRaeume == SetState("setRaeume", "raeume", "getRaeume", "setTeilnehmer")
SetTeilnehmer == SetState("setTeilnehmer", "teilnehmer", "getTeilnehmer", "setKurse")
SetKurse == SetState("setKurse", "kurse", "getKurse", "setAnmeldungen")
SetAnmeldungen == SetState("setAnmeldungen", "anmeldungen", "getAnmeldungen", "finally")

Catch ==
    /\ pc = "catch"
    /\ log' = log \o catchLog
    /\ pc' = "finally"
    /\ UNCHANGED <<dozenten, raeume, teilnehmer, kurse, anmeldungen, loading,
                   promise, calls, pending, setLoadingCalls, effectPending,
                   deps, now, view>>

Finally ==
    /\ pc = "finally"
    /\ pending' = pending \o finallyUpdates
    /\ setLoadingCalls' = setLoadingCalls + Len(finallyUpdates)
    /\ pc' = "flush"
    /\ UNCHANGED <<dozenten, raeume, teilnehmer, kurse, anmeldungen, loading,
                   promise, calls, log, effectPending, deps, now, view>>

\* the value of a state hook after the queued updates: the last one wins
latest(setter, old) ==
    LET idx == {i \in 1..Len(pending) : pending[i].setter = setter}
    IN IF idx = {} THEN old
       ELSE pending[CHOOSE i \in idx : \A j \in idx : j <= i].value

\* loadData has returned: the queued updates are applied together and the
\* component renders again
Commit ==
    /\ pc = "flush"
    /\ dozenten' = latest("dozenten", dozenten)
    /\ raeume' = latest("raeume", raeume)
    /\ teilnehmer' = latest("teilnehmer", teilnehmer)
    /\ kurse' = latest("kurse", kurse)
    /\ anmeldungen' = latest("anmeldungen", anmeldungen)
    /\ loading' = latest("loading", loading)
    /\ pending' = <<>>
    /\ view' = Render(dozenten', raeume', teilnehmer', kurse', anmeldungen', loading', now)
    /\ deps' = effectDeps(loading')
    /\ effectPending' = (effectPending \/ deps' # deps)
    /\ pc' = "done"
    /\ UNCHANGED <<promise, calls, log, setLoadingCalls, now>>

\* a render without a state change (the parent renders again)
Rerender ==
    /\ pc \in {"idle", "await", "done"}
    /\ view' = Render(dozenten, raeume, teilnehmer, kurse, anmeldungen, loading, now)
    /\ deps' = effectDeps(loading)
    /\ effectPending' = (effectPending \/ deps' # deps)
    /\ UNCHANGED <<dozenten, raeume, teilnehmer, kurse, anmeldungen, loading,
                   pc, promise, calls, pending, log, setLoadingCalls, now>>

\* time passes
Tick ==
    /\ now < MaxNow
    /\ now' = now + 1
    /\ UNCHANGED <<dozenten, raeume, teilnehmer, kurse, anmeldungen, loading,
                   pc, promise, calls, pending, log, setLoadingCalls,
                   effectPending, deps, view>>

Handler ==
    \/ SetDozenten
    \/ SetRaeume
    \/ SetTeilnehmer
    \/ SetKurse
    \/ SetAnmeldungen
    \/ Catch
    \/ Finally
    \/ Commit

Next ==
    \/ RunEffect
    \/ Fulfil
    \/ Reject
    \/ Handler
    \/ Rerender
    \/ Tick

Spec == Init /\ [][Next]_vars

\* every retrieval settles, and the event loop runs what is ready
FairSpec ==
    /\ Spec
    /\ WF_vars(RunEffect)
    /\ \A s \in Services : WF_vars(\E v \in Results(s) : Settle(s, "fulfilled", v)
                                      \/ Settle(s, "rejected", <<>>))
    /\ WF_vars(Handler)

---------------------------------------------------------------------------
(* The derived values over bounded inputs: each specification starts where  *)
(* loadData has queued the results of a successful batch, and renders them. *)

\* the updates loadData has queued once a batch p has succeeded
tryUpdates(p) ==
    <<update("dozenten", "getDozenten", p), update("raeume", "getRaeume", p),
      update("teilnehmer", "getTeilnehmer", p), update("kurse", "getKurse", p),
      update("anmeldungen", "getAnmeldungen", p)>>

Fulfilled(v) == [status |-> "fulfilled", value |-> v]

BatchQueued(dz, rm, tn, ks, anm) ==
    /\ dozenten = <<>>
    /\ raeume = <<>>
    /\ teilnehmer = <<>>
    /\ kurse = <<>>
    /\ anmeldungen = <<>>
    /\ loading = TRUE
    /\ pc = "flush"
    /\ promise = [s \in Services |->
                    CASE s = "getDozenten" -> Fulfilled(dz)
                      [] s = "getRaeume" -> Fulfilled(rm)
                      [] s = "getTeilnehmer" -> Fulfilled(tn)
                      [] s = "getKurse" -> Fulfilled(ks)
                      [] s = "getAnmeldungen" -> Fulfilled(anm)]
    /\ calls = [s \in Services |-> 1]
    /\ pending = tryUpdates(promise) \o finallyUpdates
    /\ log = <<>>
    /\ setLoadingCalls = Len(finallyUpdates)
    /\ effectPending = FALSE
    /\ deps = effectDeps(TRUE)
    /\ now = 0
    /\ view = Render(<<>>, <<>>, <<>>, <<>>, <<>>, TRUE, 0)

RenderNext ==
    \/ Commit
    \/ Rerender

RenderTickNext ==
    \/ Commit
    \/ Rerender
    \/ Tick

\* revenue: courses with a price, enrollments with a course reference
RevPreisValues == {None, Some(50), Some(100), Some(-20)}
RevRefValues ==
    {None, Some(<<>>), Some(<<"x">>), Some(Url("k1")), Some(Url("k2")), Some(Url("k9"))}
RevKurseInputs ==
    {[i \in 1..Len(p) |-> Kurs(KursIds[i], p[i], None, None)] :
        p \in SeqsUpTo(RevPreisValues, MaxRevKurse)}
RevAnmInputs ==
    {[i \in 1..Len(r) |-> Anmeldung(AnmeldungIds[i], r[i], None, None, None)] :
        r \in SeqsUpTo(RevRefValues, MaxRevAnm)}

RevenueInit ==
    \E ks \in RevKurseInputs : \E anm \in RevAnmInputs :
        BatchQueued(<<>>, <<>>, <<>>, ks, anm)

RevenueSpec == RevenueInit /\ [][RenderNext]_vars

\* courses per instructor: instructors with a name, courses with a reference
DozNameValues == {None, Some(<<>>), Some(<<"Anna", "Schmidt">>)}
DozRefValues == {None, Some(<<"x">>), Some(Url("d1")), Some(Url("d2")), Some(Url("d9"))}
DozDozentenInputs ==
    {[i \in 1..Len(n) |-> Dozent(DozentIds[i], n[i])] :
        n \in SeqsUpTo(DozNameValues, MaxDozDozenten)}
DozKurseInputs ==
    {[i \in 1..Len(r) |-> Kurs(KursIds[i], None, None, r[i])] :
        r \in SeqsUpTo(DozRefValues, MaxDozKurse)}

DozentInit ==
    \E dz \in DozDozentenInputs : \E ks \in DozKurseInputs :
        BatchQueued(dz, <<>>, <<>>, ks, <<>>)

DozentSpec == DozentInit /\ [][RenderNext]_vars

\* active courses: courses with an end date, rendered as time passes
ActEnddatumValues ==
    {None, Some(<<>>), Some(<<10, 10>>), Some(<<0, 1>>), Some(<<0, 2>>), Some(<<1, 0>>)}
ActKurseInputs ==
    {[i \in 1..Len(e) |-> Kurs(KursIds[i], None, e[i], None)] :
        e \in SeqsUpTo(ActEnddatumValues, MaxActKurse)}

ActiveInit == \E ks \in ActKurseInputs : BatchQueued(<<>>, <<>>, <<>>, ks, <<>>)

ActiveSpec == ActiveInit /\ [][RenderTickNext]_vars

\* recent enrollments: enrollments with a registration date
RecentDateValues == {None, Some(<<>>), Some(<<0, 2>>), Some(<<1>>), Some(<<1, 0>>)}
RecentAnmInputs ==
    {[i \in 1..Len(d) |-> Anmeldung(AnmeldungIds[i], None, None, d[i], None)] :
        d \in SeqsUpTo(RecentDateValues, MaxRecent)}

RecentInit == \E anm \in RecentAnmInputs : BatchQueued(<<>>, <<>>, <<>>, <<>>, anm)

RecentSpec == RecentInit /\ [][RenderNext]_vars

---------------------------------------------------------------------------
(* Properties *)

AllEmpty ==
    /\ dozenten = <<>>
    /\ raeume = <<>>
    /\ teilnehmer = <<>>
    /\ kurse = <<>>
    /\ anmeldungen = <<>>

AllFromBatch ==
    /\ \A s \in Services : promise[s].status = "fulfilled"
    /\ dozenten = promise["getDozenten"].value
    /\ raeume = promise["getRaeume"].value
    /\ teilnehmer = promise["getTeilnehmer"].value
    /\ kurse = promise["getKurse"].value
    /\ anmeldungen = promise["getAnmeldungen"].value

SomeRejected == \E s \in Services : promise[s].status = "rejected"

MetricsEmpty ==
    /\ view.totalRevenue = 0
    /\ view.paidCount = 0
    /\ view.unpaidCount = 0
    /\ view.activeKurse = <<>>
    /\ view.kursPerDozent = <<>>
    /\ view.recentAnmeldungen = <<>>

\* C1: the five collections of the view are all empty or all the results of
\* one batch in which every retrieval succeeded, never a mix; once a
\* retrieval has failed they are all empty and every derived metric is
\* zero or empty.
C1_AllOrNothing ==
    /\ AllEmpty \/ AllFromBatch
    /\ SomeRejected => AllEmpty /\ MetricsEmpty

C1_Witness ==
    /\ pc = "done"
    /\ ~loading
    /\ SomeRejected
    /\ \E s \in Services : promise[s].status = "fulfilled" /\ promise[s].value # <<>>
    /\ AllEmpty

InLoading == loading = TRUE

InLoaded == ~loading /\ log = <<>> /\ AllFromBatch

InError == ~loading /\ log # <<>> /\ SomeRejected /\ AllEmpty

ExactlyOneViewState ==
    /\ InLoading \/ InLoaded \/ InError
    /\ ~(InLoading /\ InLoaded)
    /\ ~(InLoading /\ InError)
    /\ ~(InLoaded /\ InError)

ViewStateStep ==
    /\ ExactlyOneViewState'
    /\ InLoading /\ InLoaded' => promiseAll(promise) = "fulfilled"
    /\ InLoading /\ InError' => promiseAll(promise) = "rejected"
    /\ InLoaded => InLoaded'
    /\ InError => InError'

\* C2: the view starts in loading and is always in exactly one of loading,
\* loaded (the batch succeeded) and error (a retrieval failed, told from
\* loaded by the logged diagnostic); it leaves loading for loaded only when
\* all five retrievals succeeded, for error only when one failed, and once
\* it has left loading it stays in the state it entered.
C2_ThreeStates == InLoading /\ ExactlyOneViewState /\ [][ViewStateStep]_vars

C2_Witness ==
    /\ InError
    /\ pc = "done"
    /\ \A s \in Services : promise[s].status # "pending"
    /\ view.at < now

Truthy(a) == a.bezahlt # None /\ a.bezahlt[1] = TRUE

\* C3: in every state paidCount + unpaidCount is the number of enrollments,
\* paidCount counts the enrollments whose paid flag is true and unpaidCount
\* all others, an absent flag included; both are 0 for no enrollments.
C3_PaidUnpaidSum ==
    /\ view.paidCount + view.unpaidCount = Len(anmeldungen)
    /\ view.paidCount = Cardinality({i \in 1..Len(anmeldungen) : Truthy(anmeldungen[i])})
    /\ view.unpaidCount = Cardinality({i \in 1..Len(anmeldungen) : ~Truthy(anmeldungen[i])})
    /\ anmeldungen = <<>> => view.paidCount = 0 /\ view.unpaidCount = 0

C3_Witness ==
    /\ pc = "done"
    /\ \E i \in 1..Len(anmeldungen) : anmeldungen[i].bezahlt = None
    /\ \E i \in 1..Len(anmeldungen) : anmeldungen[i].bezahlt = Some(TRUE)
    /\ view.paidCount = 1
    /\ view.unpaidCount = 1

RECURSIVE SumSeq(_)
SumSeq(s) == IF Len(s) = 0 THEN 0 ELSE s[1] + SumSeq(Tail(s))

\* the price an enrollment contributes: that of the course its reference
\* names, 0 when it names none or the course has no price
Contribution(a) ==
    LET id == extractRecordId(a.kurs)
        hits == {j \in 1..Len(kurse) : kurse[j].record_id = id}
    IN IF hits = {} THEN 0
       ELSE LET k == kurse[CHOOSE j \in hits : TRUE]
            IN IF k.preis = None THEN 0 ELSE k.preis[1]

\* C4: total revenue is the sum over the enrollments of the price of the
\* course the enrollment's reference names, 0 for a reference that is
\* absent, holds no identifier or names no course and for a course without
\* a price; it is 0 for no enrollments and not negative when no price is.
C4_TotalRevenue ==
    /\ view.totalRevenue =
         SumSeq([i \in 1..Len(anmeldungen) |-> Contribution(anmeldungen[i])])
    /\ anmeldungen = <<>> => view.totalRevenue = 0
    /\ (\A j \in 1..Len(kurse) : kurse[j].preis = None \/ kurse[j].preis[1] >= 0)
         => view.totalRevenue >= 0

C4_Witness ==
    /\ pc = "done"
    /\ Len(kurse) = 2
    /\ Len(anmeldungen) = 3
    /\ anmeldungen[1].kurs = Some(Url("k1"))
    /\ anmeldungen[2].kurs = Some(Url("k1"))
    /\ anmeldungen[3].kurs = Some(Url("k9"))
    /\ kurse[1].preis = Some(100)
    /\ view.totalRevenue = 200

\* C5: each retrieval is invoked exactly once per mount: never before the
\* effect has run, once when it runs, and never again, neither after a
\* success or a failure nor by a later render.
C5_LoadedOnce ==
    /\ pc = "idle" => effectPending /\ \A s \in Services : calls[s] = 0
    /\ pc # "idle" => ~effectPending /\ \A s \in Services : calls[s] = 1

C5_Witness ==
    /\ pc = "done"
    /\ log # <<>>
    /\ ~loading
    /\ view.at = MaxNow
    /\ view.heroAnmeldungen = Shown(0)
    /\ \A s \in Services : calls[s] = 1

Key(a) == IF a.anmeldedatum = None THEN <<>> ELSE a.anmeldedatum[1]

\* string order: a is a proper prefix of b, or lower at the first difference
StrLess(a, b) ==
    \E k \in 0..Min(Len(a), Len(b)) :
        /\ \A i \in 1..k : a[i] = b[i]
        /\ \/ k = Len(a) /\ k < Len(b)
           \/ k < Len(a) /\ k < Len(b) /\ a[k + 1] < b[k + 1]

StrLeq(a, b) == a = b \/ StrLess(a, b)

Pos(id) == CHOOSE i \in 1..Len(anmeldungen) : anmeldungen[i].record_id = id

Listed(a) ==
    \E i \in 1..Len(view.recentAnmeldungen) : view.recentAnmeldungen[i] = a

\* C6: the recent list holds min(5, number of enrollments) enrollments in
\* descending string order of their registration date, a missing date
\* counting as the empty string and so behind every dated one; enrollments
\* with equal dates keep their input order, and no enrollment left out has
\* a date above that of a listed one.
C6_RecentTopFive ==
    LET r == view.recentAnmeldungen
        n == Len(anmeldungen)
    IN /\ Len(r) = (IF n < 5 THEN n ELSE 5)
       /\ \A i \in 1..Len(r) : \E j \in 1..n : anmeldungen[j] = r[i]
       /\ \A i \in 1..Len(r) : \A j \in 1..Len(r) :
            i < j => /\ StrLeq(Key(r[j]), Key(r[i]))
                     /\ Key(r[i]) = Key(r[j]) => Pos(r[i].record_id) < Pos(r[j].record_id)
                     /\ r[i].anmeldedatum = None => Key(r[j]) = <<>>
       /\ \A i \in 1..Len(r) : \A j \in 1..n :
            ~Listed(anmeldungen[j]) => StrLeq(Key(anmeldungen[j]), Key(r[i]))

C6_Witness ==
    /\ pc = "done"
    /\ Len(anmeldungen) = 6
    /\ Len(view.recentAnmeldungen) = 5
    /\ view.recentAnmeldungen[1].record_id = "a5"
    /\ view.recentAnmeldungen[2].record_id = "a2"
    /\ view.recentAnmeldungen[3].record_id = "a4"
    /\ Key(view.recentAnmeldungen[2]) = Key(view.recentAnmeldungen[3])
    /\ view.recentAnmeldungen[5].record_id = "a1"
    /\ view.recentAnmeldungen[5].anmeldedatum = None
    /\ anmeldungen[6].anmeldedatum = Some(<<>>)
    /\ ~Listed(anmeldungen[6])

CountFor(i) ==
    Cardinality({j \in 1..Len(kurse) :
                    extractRecordId(kurse[j].dozent) = dozenten[i].record_id})

WithKurse == {i \in 1..Len(dozenten) : CountFor(i) > 0}

Rank(i) == Cardinality({k \in WithKurse : k <= i})

Label(d) ==
    IF d.name = None \/ d.name = Some(<<>>) THEN "N/A" ELSE Head(d.name[1])

\* C7: courses-per-instructor holds one entry, in instructor order, for
\* exactly the instructors with at least one course whose extracted
\* instructor reference is the instructor's identifier; the entry's count
\* is the number of those courses, never 0, and without courses there is
\* no entry.
C7_KursPerDozent ==
    LET r == view.kursPerDozent
    IN /\ Len(r) = Cardinality(WithKurse)
       /\ \A i \in WithKurse :
            r[Rank(i)].kurse = CountFor(i) /\ r[Rank(i)].name = Label(dozenten[i])
       /\ \A k \in 1..Len(r) : r[k].kurse > 0
       /\ kurse = <<>> => r = <<>>

C7_Witness ==
    /\ pc = "done"
    /\ Len(dozenten) = 2
    /\ Len(kurse) = 3
    /\ CountFor(1) = 0
    /\ CountFor(2) = 2
    /\ view.kursPerDozent = <<[name |-> "N/A", kurse |-> 2]>>

EndsAfter(k, t) ==
    /\ k.enddatum # None
    /\ parseISO(k.enddatum[1]) # InvalidDate
    /\ parseISO(k.enddatum[1]) > t

\* C8: at a render the active courses are, in course order, exactly the
\* courses that have an end date which is strictly after the instant of the
\* render; a course without an end date, or whose end date is that instant
\* or earlier, is not among them.
C8_ActiveKurse ==
    LET act == view.activeKurse
        ends == {i \in 1..Len(kurse) : EndsAfter(kurse[i], view.at)}
    IN /\ Len(act) = Cardinality(ends)
       /\ \A i \in 1..Len(kurse) :
            (\E j \in 1..Len(act) : act[j] = kurse[i]) <=> i \in ends
       /\ \A i \in 1..Len(kurse) : kurse[i].enddatum = None => i \notin ends
       /\ view.heroAktiveKurse = (IF loading THEN Placeholder ELSE Shown(Cardinality(ends)))

C8_Witness ==
    /\ pc = "done"
    /\ view.at = 1
    /\ Len(kurse) = 2
    /\ kurse[1].enddatum = Some(<<0, 1>>)
    /\ kurse[2].enddatum = Some(<<0, 2>>)
    /\ view.activeKurse = <<kurse[2]>>

\* C9: while the view is loading every displayed metric is the placeholder,
\* the sublabels of the KPI cards included, and neither chart nor the table
\* shows data.
C9_PlaceholdersWhileLoading ==
    loading =>
        /\ view.heroAktiveKurse = Placeholder
        /\ view.heroAnmeldungen = Placeholder
        /\ view.heroTeilnehmer = Placeholder
        /\ view.heroGesamtumsatz = Placeholder
        /\ view.kpiDozenten = Placeholder
        /\ view.kpiRaeume = Placeholder
        /\ view.kpiTeilnehmer = Placeholder
        /\ view.kpiKurse = Placeholder
        /\ view.kpiAnmeldungen = Placeholder
        /\ view.kpiAnmeldungenSublabel = Placeholder
        /\ ~view.chartKursPerDozent
        /\ ~view.chartPayment
        /\ ~view.tableRecent

Setters == <<"dozenten", "raeume", "teilnehmer", "kurse", "anmeldungen">>
Getters == <<"getDozenten", "getRaeume", "getTeilnehmer", "getKurse", "getAnmeldungen">>

LoadingQueuedLast ==
    pc = "flush" =>
        /\ pending[Len(pending)].setter = "loading"
        /\ pending[Len(pending)].value = FALSE
        /\ \A i \in 1..(Len(pending) - 1) : pending[i].setter # "loading"
        /\ log = <<>> =>
             /\ Len(pending) = 6
             /\ \A i \in 1..5 : /\ pending[i].setter = Setters[i]
                                /\ pending[i].value = promise[Getters[i]].value
        /\ log # <<>> => Len(pending) = 1

\* C10: when every retrieval settles the view leaves loading; the loading
\* flag is set to false exactly once on the way, after a success as after a
\* failure, and after a success only behind the five stored collections.
C10_LeavesLoading ==
    /\ <>(loading = FALSE)
    /\ [](setLoadingCalls <= 1)
    /\ [](pc \in {"flush", "done"} <=> setLoadingCalls = 1)
    /\ [](loading = FALSE => pc = "done")
    /\ [](pc = "done" => loading = FALSE)
    /\ []LoadingQueuedLast
    /\ [](loading = FALSE /\ log = <<>> => AllFromBatch)

C10_Witness ==
    /\ pc = "done"
    /\ loading = FALSE
    /\ log = <<>>
    /\ setLoadingCalls = 1
    /\ anmeldungen # <<>>
    /\ dozenten # <<>>

=============================================================================
